---- MODULE Spec2Model ----
(***************************************************************************)
(* Quote aggregation pipeline of scripts/generate-dataset.py:              *)
(* load -> fetch -> merge/dedup -> checkpoint -> partition.                *)
(*                                                                         *)
(* A JSON string is a sequence of one-character strings, so that strip()   *)
(* and lower() are computed and not assumed.  A Python dict is a function  *)
(* whose DOMAIN is the set of its keys (a record): a quote without a       *)
(* "tags" key is a record without a tags field.  JSON null / Python None   *)
(* in a text position is the marker None.                                  *)
(***************************************************************************)
EXTENDS Integers, Sequences, FiniteSets

VARIABLES
    pc,          \* position of the driver / harness
    existing,    \* merge_quotes: first argument
    incoming,    \* merge_quotes: second argument ("new" in the source)
    m1, a1,      \* result of merge_quotes(existing, incoming)
    m2, a2,      \* result of merge_quotes(m1, incoming)
    all_quotes,  \* the in-memory collection
    tags_db,     \* organize_by_tags(all_quotes): tag -> bucket
    authors_db,  \* organize_by_authors(all_quotes): author -> bucket
    file,        \* content of OUTPUT_FILE (data/quotes.json)
    run,            \* iteration of the driver loop, 1-based
    processed_order,\* the tags in the order this pass processes them
    tag_idx,        \* index in processed_order of the tag being processed
    site,           \* index of the next network call of the current tag
    new_quotes,     \* records fetched so far for the current tag
    tag_files,      \* TAGS_DIR: tag -> content of <tag>.json
    nfetched,       \* items received from the network so far (capped)
    writes,         \* history: writes of OUTPUT_FILE in this pass
    base,           \* history: the collection the first pass loaded
    fetched,        \* history: all fetch results merged so far, in order
    saved,          \* history: all_quotes when the last tag completed
    tags_dir,       \* generate-options.py: TAGS_DIR as the generator finds it
    authors_dir,    \* generate-options.py: AUTHORS_DIR as the generator finds it
    options,        \* content of OUTPUT_FILE_DATA (data/options.yml)
    name,           \* slugify: the argument ("text" in the source)
    slug,           \* slugify: the result
    last_call       \* fetch harness: the last network call and whether a
                    \* time.sleep followed it

mergeVars == <<existing, incoming, m1, a1, m2, a2>>
orgVars == <<tags_db, authors_db>>
passVars == <<run, processed_order, tag_idx, site, new_quotes, tag_files, nfetched>>
histVars == <<writes, base, fetched, saved>>
optVars == <<tags_dir, authors_dir, options>>
slugVars == <<name, slug>>
toolVars == <<optVars, slugVars, last_call>>
vars == <<pc, mergeVars, all_quotes, orgVars, file, passVars, histVars, toolVars>>

(***************************** bounds **************************************)
MaxLen == 2          \* longest argument list of the merge harness
MaxColl == 3         \* longest collection of the partitioning harness
MaxFileLen == 1      \* longest list stored in the file of the load harness
MaxRuns == 2         \* passes of the driver loop (range(50) in the source)
MaxFetched == 2      \* items the network returns over a whole run
MaxFiles == 2        \* most files in TAGS_DIR of the options harness
MaxAuthorFiles == 1  \* most files in AUTHORS_DIR of the options harness
MaxCount == 1        \* largest "count" stored in a partition file
MaxNameLen == 4      \* longest argument of slugify in the slug harness

(***************************** strings *************************************)
None == <<"None">>
Unknown == "Unknown"

IsStr(t) == t # None

IsSpace(c) == c = " "

LowerChar(c) ==
    CASE c = "A" -> "a"
      [] c = "B" -> "b"
      [] c = "W" -> "w"
      [] OTHER -> c

\* str.lower()
Lower(t) == [i \in 1..Len(t) |-> LowerChar(t[i])]

\* str.strip(): drop leading and trailing whitespace
Strip(t) ==
    LET keep == {i \in 1..Len(t) : ~IsSpace(t[i])}
    IN  IF keep = {} THEN <<>>
        ELSE LET lo == CHOOSE i \in keep : \A j \in keep : i <= j
                 hi == CHOOSE i \in keep : \A j \in keep : j <= i
             IN  SubSeq(t, lo, hi)

\* quote["text"].strip().lower(), the dedup key
NormText(q) == Lower(Strip(q.text))

\* quote["text"].strip() raises: KeyError without the key, AttributeError on None
TextRaises(q) == "text" \notin DOMAIN q \/ ~IsStr(q.text)

(***************************** quote records *******************************)
QuotePool ==
    { [text |-> <<"A">>,      author |-> "X", source |-> "quotable.io", tags |-> <<"war">>],
      [text |-> <<"a", " ">>, author |-> "Y", source |-> "zenquotes.io", tags |-> <<"war", "peace">>],
      [text |-> <<" ", "A">>, author |-> "X", source |-> "quotable.io", tags |-> <<"peace">>],
      [text |-> <<"B">>,      author |-> "X", source |-> "quotable.io", tags |-> <<"peace", "peace">>],
      [text |-> <<" ">>,      author |-> "Y", source |-> "quotable.io", tags |-> <<"war">>],
      [text |-> <<"b">>,      author |-> "Y", source |-> "legacy"],
      [text |-> None,         author |-> "X", source |-> "quotable.io", tags |-> <<"war">>] }

BoundedLists(n) == UNION {[1..k -> QuotePool] : k \in 0..n}

(***************************** merge_quotes ********************************)
\* merge_quotes with the lookup set never updated in the loop
RECURSIVE MergeLoopNoAdd(_, _, _, _, _)
MergeLoopNoAdd(new, i, merged, existing_texts, added) ==
    IF i > Len(new) THEN [raised |-> FALSE, merged |-> merged, added |-> added]
    ELSE LET quote == new[i]
             text == Strip(quote.text)
         IN  IF text # <<>> /\ Lower(text) \notin existing_texts
             THEN MergeLoopNoAdd(new, i + 1, Append(merged, quote), existing_texts, added + 1)
             ELSE MergeLoopNoAdd(new, i + 1, merged, existing_texts, added)

\* merge_quotes with the membership test on the stripped text, not lowercased
RECURSIVE MergeLoopNoLower(_, _, _, _, _)
MergeLoopNoLower(new, i, merged, existing_texts, added) ==
    IF i > Len(new) THEN [raised |-> FALSE, merged |-> merged, added |-> added]
    ELSE LET quote == new[i]
             text == Strip(quote.text)
         IN  IF text # <<>> /\ text \notin existing_texts
             THEN MergeLoopNoLower(new, i + 1, Append(merged, quote),
                                   existing_texts \cup {Lower(text)}, added + 1)
             ELSE MergeLoopNoLower(new, i + 1, merged, existing_texts, added)

\* merge_quotes inserting each accepted record at the front
RECURSIVE MergeLoopPrepend(_, _, _, _, _)
MergeLoopPrepend(new, i, merged, existing_texts, added) ==
    IF i > Len(new) THEN [raised |-> FALSE, merged |-> merged, added |-> added]
    ELSE LET quote == new[i]
             text == Strip(quote.text)
         IN  IF text # <<>> /\ Lower(text) \notin existing_texts
             THEN MergeLoopPrepend(new, i + 1, <<quote>> \o merged,
                                   existing_texts \cup {Lower(text)}, added + 1)
             ELSE MergeLoopPrepend(new, i + 1, merged, existing_texts, added)

\* merge_quotes adding a duplicate's tags to the record already collected
RECURSIVE MergeLoopJoinTags(_, _, _, _, _)
MergeLoopJoinTags(new, i, merged, existing_texts, added) ==
    IF i > Len(new) THEN [raised |-> FALSE, merged |-> merged, added |-> added]
    ELSE LET quote == new[i]
             text == Strip(quote.text)
             j == CHOOSE k \in 1..Len(merged) : Lower(Strip(merged[k].text)) = Lower(text)
             tags(q) == IF "tags" \in DOMAIN q THEN q.tags ELSE <<>>
             more == SelectSeq(tags(quote),
                         LAMBDA t : \A k \in 1..Len(tags(merged[j])) : tags(merged[j])[k] # t)
             joined == [f \in DOMAIN merged[j] \cup {"tags"} |->
                           IF f = "tags" THEN tags(merged[j]) \o more ELSE merged[j][f]]
         IN  IF text # <<>> /\ Lower(text) \notin existing_texts
             THEN MergeLoopJoinTags(new, i + 1, Append(merged, quote),
                                    existing_texts \cup {Lower(text)}, added + 1)
             ELSE IF text # <<>>
                  THEN MergeLoopJoinTags(new, i + 1, [merged EXCEPT ![j] = joined],
                                         existing_texts, added)
                  ELSE MergeLoopJoinTags(new, i + 1, merged, existing_texts, added)

\* the loop body over `new`, from index i on
RECURSIVE MergeLoop(_, _, _, _, _)
MergeLoop(new, i, merged, existing_texts, added) ==
    IF i > Len(new) THEN [raised |-> FALSE, merged |-> merged, added |-> added]
    ELSE LET quote == new[i]
             text == Strip(quote.text)
         IN  IF text # <<>> /\ Lower(text) \notin existing_texts
             THEN MergeLoop(new, i + 1, Append(merged, quote),
                            existing_texts \cup {Lower(text)}, added + 1)
             ELSE MergeLoop(new, i + 1, merged, existing_texts, added)

\* merge_quotes appending every incoming record
merge_quotesNoDedup(old, new) ==
    IF \E i \in 1..Len(old) : TextRaises(old[i]) THEN
        [raised |-> TRUE, merged |-> <<>>, added |-> 0]
    ELSE IF \E i \in 1..Len(new) : TextRaises(new[i]) THEN
        [raised |-> TRUE, merged |-> <<>>, added |-> 0]
    ELSE [raised |-> FALSE, merged |-> old \o new, added |-> Len(new)]

\* existing_texts, merged = existing.copy(), then the loop; a record whose
\* text is missing or null makes the call raise
merge_quotes(old, new) ==
    IF \E i \in 1..Len(old) : TextRaises(old[i]) THEN
        [raised |-> TRUE, merged |-> <<>>, added |-> 0]
    ELSE IF \E i \in 1..Len(new) : TextRaises(new[i]) THEN
        [raised |-> TRUE, merged |-> <<>>, added |-> 0]
    ELSE MergeLoop(new, 1, old, {NormText(old[i]) : i \in 1..Len(old)}, 0)

\* the list passed as `existing`, once the call has returned: the loop
\* appends to merged, which is existing.copy(), and no statement assigns to
\* existing or to one of its records
existing_after(old, merged) == old

(***************************** partitioning ********************************)
EmptyDict == [k \in {} |-> <<>>]

\* dict.get(key, default)
Get(d, key, default) == IF key \in DOMAIN d THEN d[key] ELSE default

\* the bucket test on the raw text, neither trimmed nor lowercased
AddToBucketRaw(db, key, quote) ==
    LET bucket == Get(db, key, <<>>)
        quote_texts == {bucket[k].text : k \in 1..Len(bucket)}
        after == IF quote.text \notin quote_texts THEN Append(bucket, quote) ELSE bucket
    IN  [k \in DOMAIN db \cup {key} |-> IF k = key THEN after ELSE db[k]]

\* the body shared by both partitioners: create the bucket of `key` when it
\* is new, then append `quote` unless the bucket holds its normalized text
AddToBucket(db, key, quote) ==
    LET bucket == Get(db, key, <<>>)
        quote_texts == {NormText(bucket[k]) : k \in 1..Len(bucket)}
        after == IF NormText(quote) \notin quote_texts THEN Append(bucket, quote) ELSE bucket
    IN  [k \in DOMAIN db \cup {key} |-> IF k = key THEN after ELSE db[k]]

\* the inner loop stopping after a quote's first tag
TagLoopFirstOnly(db, quote, tags, j) ==
    IF j > Len(tags) THEN db ELSE AddToBucket(db, tags[j], quote)

\* the inner loop of organize_by_tags over one quote's tags, from index j on
RECURSIVE TagLoop(_, _, _, _)
TagLoop(db, quote, tags, j) ==
    IF j > Len(tags) THEN db
    ELSE TagLoop(AddToBucket(db, tags[j], quote), quote, tags, j + 1)

RECURSIVE OrganizeTagsFrom(_, _, _)
OrganizeTagsFrom(quotes, i, db) ==
    IF i > Len(quotes) THEN db
    ELSE OrganizeTagsFrom(quotes, i + 1,
                          TagLoop(db, quotes[i], Get(quotes[i], "tags", <<>>), 1))

\* quote["text"].strip() is reached only for a quote that carries a tag
organize_by_tags(quotes) ==
    IF \E i \in 1..Len(quotes) :
          Len(Get(quotes[i], "tags", <<>>)) > 0 /\ TextRaises(quotes[i])
    THEN [raised |-> TRUE, db |-> EmptyDict]
    ELSE [raised |-> FALSE, db |-> OrganizeTagsFrom(quotes, 1, EmptyDict)]

RECURSIVE OrganizeAuthorsFrom(_, _, _)
OrganizeAuthorsFrom(quotes, i, db) ==
    IF i > Len(quotes) THEN db
    ELSE OrganizeAuthorsFrom(quotes, i + 1,
                             AddToBucket(db, Get(quotes[i], "author", Unknown), quotes[i]))

organize_by_authors(quotes) ==
    IF \E i \in 1..Len(quotes) : TextRaises(quotes[i])
    THEN [raised |-> TRUE, db |-> EmptyDict]
    ELSE [raised |-> FALSE, db |-> OrganizeAuthorsFrom(quotes, 1, EmptyDict)]

(***************************** load_existing_quotes ************************)
\* What OUTPUT_FILE can hold.  A JSON object is the sequence of its
\* (key, value) pairs in file order, the order data.items() iterates in.
AbsentFile == [shape |-> "absent"]
InvalidFile == [shape |-> "invalid"]      \* json.load raises
ScalarFile == [shape |-> "scalar"]        \* a JSON number, string, boolean or null
ListFile(quotes) == [shape |-> "list", data |-> quotes]
DictFile(items) == [shape |-> "dict", items |-> items]
Envelope(quotes) == DictFile(<<[key |-> "quotes", value |-> quotes]>>)

\* a JSON value that is no list of records
NotAList == <<[notalist |-> TRUE]>>

Keys(items) == {items[p].key : p \in 1..Len(items)}
ValueOf(items, key) == items[CHOOSE p \in 1..Len(items) : items[p].key = key].value

\* the conversion tagging every record, also one that has a "tags" field
RetagAlways(quote, tag) ==
    [f \in DOMAIN quote \cup {"tags"} |-> IF f = "tags" THEN <<tag>> ELSE quote[f]]

\* if "tags" not in quote: quote["tags"] = [tag]
Retag(quote, tag) ==
    IF "tags" \notin DOMAIN quote
    THEN [f \in DOMAIN quote \cup {"tags"} |-> IF f = "tags" THEN <<tag>> ELSE quote[f]]
    ELSE quote

RetagList(quotes, tag) == [k \in 1..Len(quotes) |-> Retag(quotes[k], tag)]

\* for tag, quotes in data.items(): ... all_quotes.append(quote)
RECURSIVE Flatten(_, _, _)
Flatten(items, p, all) ==
    IF p > Len(items) THEN all
    ELSE Flatten(items, p + 1, all \o RetagList(items[p].value, items[p].key))

load_existing_quotes(f) ==
    CASE f.shape = "absent" -> <<>>
      [] f.shape = "invalid" -> <<>>                  \* except: return []
      [] f.shape = "list" -> f.data
      [] f.shape = "dict" ->
            IF "quotes" \in Keys(f.items) THEN ValueOf(f.items, "quotes")
            ELSE IF \E p \in 1..Len(f.items) : f.items[p].value = NotAList
                 THEN <<>>                           \* except: return []
                 ELSE Flatten(f.items, 1, <<>>)
      [] OTHER -> <<>>                                \* falls through to return []

(***************************** configuration *******************************)
\* The tables of the source, in miniature: keywords are one-character
\* strings, matched as substrings of the lowercased text like the source's.
ALL_TAGS == <<"war", "strategy", "peace">>          \* list(TAG_KEYWORDS.keys())

TAG_KEYWORDS ==
    [war |-> << <<"w">>, <<"b">> >>, strategy |-> << <<"a">> >>, peace |-> << <<"b">> >>]

MILITARY_AUTHORS == <<"Sun Tzu">>

MANUAL_WAR_QUOTES ==
    << [text |-> <<"W">>, author |-> "Sun Tzu", source |-> "The Art of War",
        tags |-> <<"war", "strategy", "wisdom">>] >>

war_keywords == << <<"w">>, <<"b">> >>

author_map == [war |-> MILITARY_AUTHORS, strategy |-> <<"Sun Tzu">>]

priority_tags == <<"war", "strategy">>

\* seq[:n]
Take(seq, n) == SubSeq(seq, 1, IF n < Len(seq) THEN n ELSE Len(seq))

\* needle in hay
Contains(hay, needle) ==
    \E i \in 1..(Len(hay) - Len(needle) + 1) : SubSeq(hay, i, i + Len(needle) - 1) = needle

(***************************** network calls *******************************)
\* What requests.get and response.json() can do for one call.
FailedCalls ==
    { [kind |-> "exception"],       \* requests.get raises
      [kind |-> "status"],          \* status_code != 200
      [kind |-> "badjson"] }        \* response.json() raises

\* The items of a 200 response ("content"/"author"; zenquotes' "q"/"a"
\* are read the same way): a field may be missing or null.
ItemPool ==
    { [content |-> <<"A">>, author |-> "X"],
      [content |-> <<"a", " ">>, author |-> "Y"],
      [content |-> <<"W">>],
      [author |-> "X"],
      [content |-> None, author |-> "X"] }

Outcomes(n) ==
    FailedCalls \cup {[kind |-> "ok", items |-> items] :
                        items \in UNION {[1..k -> ItemPool] : k \in 0..n}}

ItemQuote(item, source, tags) ==
    [text |-> Get(item, "content", <<>>), author |-> Get(item, "author", Unknown),
     source |-> source, tags |-> tags]

\* one call of fetch_from_quotable, fetch_from_quotable_search,
\* fetch_from_quotable_by_author or fetch_quotes_by_military_authors:
\* every item of a 200 response is appended
plain_call(out, tags) ==
    IF out.kind = "ok"
    THEN [k \in 1..Len(out.items) |-> ItemQuote(out.items[k], "quotable.io", tags)]
    ELSE <<>>

\* the item loop of fetch_from_zenquotes and of the keyword search of
\* fetch_military_quotes: .lower() on a null text raises inside the try,
\* which ends the loop and keeps what was appended
RECURSIVE FilterLoop(_, _, _, _, _, _)
FilterLoop(items, k, keywords, source, tags, acc) ==
    IF k > Len(items) THEN acc
    ELSE LET text == Get(items[k], "content", <<>>)
         IN  IF ~IsStr(text) THEN acc
             ELSE IF \E w \in 1..Len(keywords) : Contains(Lower(text), Lower(keywords[w]))
                  THEN FilterLoop(items, k + 1, keywords, source, tags,
                                  Append(acc, ItemQuote(items[k], source, tags)))
                  ELSE FilterLoop(items, k + 1, keywords, source, tags, acc)

filtered_call(out, keywords, source, tags) ==
    IF out.kind = "ok" THEN FilterLoop(out.items, 1, keywords, source, tags, <<>>) ELSE <<>>

\* the network calls one tag makes, in order
CallSites(tag) ==
    IF tag = "war"
    THEN [k \in 1..Len(Take(MILITARY_AUTHORS, 8)) |-> "military_authors"]
         \o [k \in 1..Len(Take(war_keywords, 4)) |-> "war_search"]
    ELSE [k \in 1..Len(Take(Get(TAG_KEYWORDS, tag, << <<"l">> >>), 3)) |-> "quotable"]
         \o [k \in 1..Len(Take(Get(TAG_KEYWORDS, tag, << <<"l">> >>), 3)) |-> "search"]
         \o [k \in 1..Len(Take(Get(author_map, tag, <<>>), 2)) |-> "by_author"]
         \o <<"zenquotes">>

\* what one call adds to the records of the current tag
CallResult(fetcher, tag, out) ==
    CASE fetcher = "military_authors" -> plain_call(out, <<"war", "military", "strategy">>)
      [] fetcher = "war_search" ->
            filtered_call(out, war_keywords, "quotable.io", <<"war", "military">>)
      [] fetcher = "zenquotes" ->
            filtered_call(out, Get(TAG_KEYWORDS, tag, << <<"l">> >>), "zenquotes.io", <<tag>>)
      [] OTHER -> plain_call(out, <<tag>>)

\* whether the fetcher reaches its time.sleep after a call with this outcome
Sleeps(fetcher, out) ==
    CASE fetcher = "war_search" -> TRUE              \* after the try/except
      [] fetcher = "quotable" -> out.kind = "ok"     \* inside the 200 branch
      [] fetcher = "zenquotes" ->                    \* last statement of the try body
            \/ out.kind = "status"
            \/ /\ out.kind = "ok"
               /\ \A k \in 1..Len(out.items) : IsStr(Get(out.items[k], "content", <<>>))
      [] OTHER -> out.kind \in {"ok", "status"}      \* last statement of the try body

\* the closing loop of fetch_military_quotes, outside any try
RECURSIVE UniqueLoop(_, _, _, _)
UniqueLoop(quotes, i, unique_quotes, seen_texts) ==
    IF i > Len(quotes) THEN unique_quotes
    ELSE LET text == NormText(quotes[i])
         IN  IF text # <<>> /\ text \notin seen_texts
             THEN UniqueLoop(quotes, i + 1, Append(unique_quotes, quotes[i]),
                             seen_texts \cup {text})
             ELSE UniqueLoop(quotes, i + 1, unique_quotes, seen_texts)

military_unique(quotes) ==
    IF \E i \in 1..Len(quotes) : TextRaises(quotes[i])
    THEN [raised |-> TRUE, quotes |-> <<>>]
    ELSE [raised |-> FALSE, quotes |-> UniqueLoop(quotes, 1, <<>>, {})]

(***************************** persistence *********************************)
\* the collection dumped without its envelope
CheckpointBare(quotes) == ListFile(quotes)

\* json.dump({"quotes": all_quotes}, f)
Checkpoint(quotes) == Envelope(quotes)

\* save_tag_files: one file per tag of tags_db, other files left alone
save_tag_files(files, db) ==
    [t \in DOMAIN files \cup DOMAIN db |->
        IF t \in DOMAIN db THEN [tag |-> t, count |-> Len(db[t]), quotes |-> db[t]]
        ELSE files[t]]

(***************************** idle parts **********************************)
MergeIdle ==
    existing = <<>> /\ incoming = <<>> /\ m1 = <<>> /\ a1 = 0 /\ m2 = <<>> /\ a2 = 0

OrgIdle == tags_db = EmptyDict /\ authors_db = EmptyDict

FileIdle == file = AbsentFile

\* OUTPUT_FILE_DATA before the generator has written it
NotWritten == <<[written |-> FALSE]>>
MissingDir == [exists |-> FALSE]

OptIdle == tags_dir = MissingDir /\ authors_dir = MissingDir /\ options = NotWritten

SlugIdle == name = <<>> /\ slug = <<>>

\* no network call made yet
NoCall == [fetcher |-> "none", outcome |-> "none", paused |-> TRUE]

FetchIdle == last_call = NoCall

PassIdle ==
    /\ run = 1 /\ processed_order = <<>> /\ tag_idx = 1 /\ site = 1
    /\ new_quotes = <<>> /\ tag_files = EmptyDict /\ nfetched = 0
    /\ writes = 0 /\ base = <<>> /\ fetched = <<>> /\ saved = <<>>

(***************************** merge harness *******************************)
InitMerge ==
    /\ pc = "call"
    /\ all_quotes = <<>> /\ OrgIdle /\ FileIdle /\ PassIdle /\ OptIdle /\ SlugIdle /\ FetchIdle
    /\ existing \in BoundedLists(MaxLen)
    /\ incoming \in BoundedLists(MaxLen)
    /\ m1 = <<>> /\ a1 = 0 /\ m2 = <<>> /\ a2 = 0

MergeOnce ==
    /\ pc = "call"
    /\ LET r == merge_quotes(existing, incoming)
       IN  /\ pc' = IF r.raised THEN "raised" ELSE "merged"
           /\ m1' = r.merged
           /\ a1' = r.added
           /\ existing' = existing_after(existing, r.merged)
    /\ UNCHANGED <<toolVars, incoming, m2, a2, all_quotes, orgVars, file, passVars, histVars>>

MergeAgain ==
    /\ pc = "merged"
    /\ LET r == merge_quotes(m1, incoming)
       IN  /\ pc' = IF r.raised THEN "raised" ELSE "merged_again"
           /\ m2' = r.merged
           /\ a2' = r.added
    /\ UNCHANGED <<toolVars, existing, incoming, m1, a1, all_quotes, orgVars, file, passVars, histVars>>

NextMerge == MergeOnce \/ MergeAgain

SpecMerge == InitMerge /\ [][NextMerge]_vars

(***************************** partitioning harness ************************)
InitOrg ==
    /\ pc = "organize"
    /\ all_quotes \in BoundedLists(MaxColl)
    /\ OrgIdle /\ MergeIdle /\ FileIdle /\ PassIdle /\ OptIdle /\ SlugIdle /\ FetchIdle

OrganizeByTags ==
    /\ pc = "organize"
    /\ LET r == organize_by_tags(all_quotes)
       IN  /\ pc' = IF r.raised THEN "raised" ELSE "by_tags"
           /\ tags_db' = r.db
    /\ UNCHANGED <<toolVars, mergeVars, all_quotes, authors_db, file, passVars, histVars>>

OrganizeByAuthors ==
    /\ pc = "by_tags"
    /\ LET r == organize_by_authors(all_quotes)
       IN  /\ pc' = IF r.raised THEN "raised" ELSE "by_authors"
           /\ authors_db' = r.db
    /\ UNCHANGED <<toolVars, mergeVars, all_quotes, tags_db, file, passVars, histVars>>

NextOrg == OrganizeByTags \/ OrganizeByAuthors

SpecOrg == InitOrg /\ [][NextOrg]_vars

(***************************** load harness ********************************)
FileKeys == {"quotes", "war", "peace"}
FileValues == BoundedLists(MaxFileLen) \cup {NotAList}

\* JSON objects of at most two keys
DictItems ==
    {<<>>}
    \cup {<<[key |-> k, value |-> v]>> : k \in FileKeys, v \in FileValues}
    \cup {<<[key |-> kk[1], value |-> v1], [key |-> kk[2], value |-> v2]>> :
            kk \in {x \in FileKeys \X FileKeys : x[1] # x[2]},
            v1 \in FileValues, v2 \in FileValues}

FileContents ==
    {AbsentFile, InvalidFile, ScalarFile}
    \cup {ListFile(q) : q \in FileValues}
    \cup {DictFile(items) : items \in DictItems}

InitLoad ==
    /\ pc = "load"
    /\ file \in FileContents
    /\ all_quotes = <<>>
    /\ OrgIdle /\ MergeIdle /\ PassIdle /\ OptIdle /\ SlugIdle /\ FetchIdle

Load ==
    /\ pc = "load"
    /\ all_quotes' = load_existing_quotes(file)
    /\ pc' = "loaded"
    /\ UNCHANGED <<toolVars, mergeVars, orgVars, file, passVars, histVars>>

NextLoad == Load

SpecLoad == InitLoad /\ [][NextLoad]_vars

(***************************** the driver **********************************)
qA == [text |-> <<"A">>, author |-> "X", source |-> "quotable.io", tags |-> <<"war">>]
qa == [text |-> <<"a", " ">>, author |-> "Y", source |-> "zenquotes.io", tags |-> <<"war", "peace">>]
qb == [text |-> <<"b">>, author |-> "Y", source |-> "legacy"]
qNone == [text |-> None, author |-> "X", source |-> "quotable.io", tags |-> <<"war">>]

\* what quotes.json holds before the first pass
PriorFiles ==
    { AbsentFile, InvalidFile, ScalarFile,
      ListFile(<<>>), ListFile(<<qA, qa>>), ListFile(<<qNone>>),
      Envelope(<<qA>>), Envelope(NotAList),
      DictFile(<<[key |-> "war", value |-> <<qb>>], [key |-> "peace", value |-> <<qb>>]>>),
      DictFile(<<[key |-> "war", value |-> NotAList]>>) }

\* random.shuffle(remaining_tags): any order
Shuffles(seq) ==
    {p \in [1..Len(seq) -> {seq[i] : i \in 1..Len(seq)}] :
        \A i, j \in 1..Len(seq) : i # j => p[i] # p[j]}

remaining_tags ==
    LET keep == {i \in 1..Len(ALL_TAGS) :
                    \A j \in 1..Len(priority_tags) : ALL_TAGS[i] # priority_tags[j]}
        RECURSIVE pick(_)
        pick(i) == IF i > Len(ALL_TAGS) THEN <<>>
                   ELSE (IF i \in keep THEN <<ALL_TAGS[i]>> ELSE <<>>) \o pick(i + 1)
    IN  pick(1)

Init ==
    /\ pc = "load"
    /\ file \in PriorFiles
    /\ all_quotes = <<>>
    /\ OrgIdle /\ MergeIdle /\ PassIdle /\ OptIdle /\ SlugIdle /\ FetchIdle

\* generate_quotes_database up to the tag loop
LoadPass ==
    /\ pc = "load"
    /\ all_quotes' = load_existing_quotes(file)
    /\ \E order \in Shuffles(remaining_tags) : processed_order' = priority_tags \o order
    /\ tag_idx' = 1 /\ site' = 1 /\ new_quotes' = <<>> /\ writes' = 0
    /\ base' = IF run = 1 THEN all_quotes' ELSE base
    \* len(all_quotes) raises on a truthy value that is no list
    /\ pc' = IF all_quotes' = NotAList THEN "crashed" ELSE "fetch"
    /\ UNCHANGED <<toolVars, mergeVars, orgVars, file, run, tag_files, nfetched, fetched, saved>>

\* one network call of the current tag's fetchers, with what the fetcher
\* does after it; the last call of a tag hands new_quotes to the merge
FetchStep(out) ==
    LET tag == processed_order[tag_idx]
        sites == CallSites(tag)
        got == new_quotes \o CallResult(sites[site], tag, out)
        \* military_quotes.extend(MANUAL_WAR_QUOTES) after the author lookups
        ext == IF sites[site] = "military_authors"
                  /\ (site = Len(sites) \/ sites[site + 1] # "military_authors")
               THEN got \o MANUAL_WAR_QUOTES ELSE got
        last == site = Len(sites)
        uniq == military_unique(ext)
    IN  /\ nfetched' = nfetched + (IF out.kind = "ok" THEN Len(out.items) ELSE 0)
        /\ IF last /\ tag = "war"
           THEN /\ new_quotes' = IF uniq.raised THEN ext ELSE uniq.quotes
                /\ pc' = IF uniq.raised THEN "crashed" ELSE "merge"
           ELSE /\ new_quotes' = ext
                /\ pc' = IF last THEN "merge" ELSE "fetch"
        /\ site' = IF last THEN 1 ELSE site + 1
        /\ UNCHANGED <<optVars, slugVars, mergeVars, all_quotes, orgVars, file, run,
                       processed_order, tag_idx, tag_files, histVars>>

FetchCall ==
    /\ pc = "fetch"
    /\ \E out \in Outcomes(MaxFetched - nfetched) : FetchStep(out)
    /\ UNCHANGED last_call

\* all_quotes, added = merge_quotes(all_quotes, new_quotes)
MergeTag ==
    /\ pc = "merge"
    /\ LET r == merge_quotes(all_quotes, new_quotes)
       IN  IF r.raised
           THEN pc' = "crashed" /\ UNCHANGED <<all_quotes, fetched>>
           ELSE /\ pc' = "save"
                /\ all_quotes' = r.merged
                /\ fetched' = fetched \o new_quotes
    /\ UNCHANGED <<toolVars, mergeVars, orgVars, file, passVars, writes, base, saved>>

\* the per-tag write of OUTPUT_FILE, then the next tag
SaveProgress ==
    /\ pc = "save"
    /\ file' = Checkpoint(all_quotes)
    /\ writes' = writes + 1
    /\ saved' = all_quotes
    /\ new_quotes' = <<>>
    /\ tag_idx' = tag_idx + 1
    /\ pc' = IF tag_idx = Len(processed_order) THEN "organize" ELSE "fetch"
    /\ UNCHANGED <<toolVars, mergeVars, all_quotes, orgVars, run, processed_order, site, tag_files,
                   nfetched, base, fetched>>

\* generate_quotes_database after the tag loop
Organize ==
    /\ pc = "organize"
    /\ LET t == organize_by_tags(all_quotes)
           a == organize_by_authors(all_quotes)
       IN  IF t.raised
           THEN pc' = "crashed" /\ UNCHANGED <<tags_db, authors_db, tag_files>>
           ELSE /\ tags_db' = t.db
                /\ tag_files' = save_tag_files(tag_files, t.db)
                /\ IF a.raised THEN pc' = "crashed" /\ UNCHANGED authors_db
                   ELSE pc' = "done" /\ authors_db' = a.db
    /\ UNCHANGED <<toolVars, mergeVars, all_quotes, file, run, processed_order, tag_idx, site,
                   new_quotes, nfetched, histVars>>

\* for i in range(50): generate_quotes_database(); time.sleep(60)
NextRun ==
    /\ pc = "done"
    /\ run < MaxRuns
    /\ run' = run + 1
    /\ pc' = "load"
    /\ tags_db' = EmptyDict /\ authors_db' = EmptyDict
    /\ UNCHANGED <<toolVars, mergeVars, all_quotes, file, processed_order, tag_idx, site, new_quotes,
                   tag_files, nfetched, histVars>>

Next == LoadPass \/ FetchCall \/ MergeTag \/ SaveProgress \/ Organize \/ NextRun

Spec == Init /\ [][Next]_vars

(***************************** fetch harness *******************************)
\* the network calls of one tag, each with the pause that follows it or not
InitFetch ==
    /\ pc = "fetch"
    /\ processed_order \in {<<ALL_TAGS[t]>> : t \in 1..Len(ALL_TAGS)}
    /\ run = 1 /\ tag_idx = 1 /\ site = 1
    /\ new_quotes = <<>> /\ tag_files = EmptyDict /\ nfetched = 0
    /\ writes = 0 /\ base = <<>> /\ fetched = <<>> /\ saved = <<>>
    /\ FetchIdle
    /\ all_quotes = <<>> /\ OrgIdle /\ MergeIdle /\ FileIdle /\ OptIdle /\ SlugIdle

TimedCall ==
    /\ pc = "fetch"
    /\ \E out \in Outcomes(MaxFetched - nfetched) :
          LET fetcher == CallSites(processed_order[tag_idx])[site]
          IN  /\ FetchStep(out)
              /\ last_call' = [fetcher |-> fetcher, outcome |-> out.kind,
                               paused |-> Sleeps(fetcher, out)]

NextFetch == TimedCall

SpecFetch == InitFetch /\ [][NextFetch]_vars

(***************************** scripts/generate-options.py *****************)
(* A directory is MissingDir or [exists |-> TRUE, files |-> <<...>>], the  *)
(* files in the order glob() yields them.  A file is [stem, content]; its  *)
(* content is Unreadable (open or json.load raises, or the value has no    *)
(* .get) or a JSON object, a record with the keys it has.  Tag names are   *)
(* sequences of characters: they are capitalized and sorted.  Counts are   *)
(* numbers, as save_tag_files writes them.                                 *)
Unreadable == [readable |-> FALSE]

UpperChar(c) ==
    CASE c = "a" -> "A"
      [] c = "b" -> "B"
      [] c = "w" -> "W"
      [] OTHER -> c

\* str.capitalize(): first character upper case, the rest lower case
Capitalize(t) == IF t = <<>> THEN <<>> ELSE <<UpperChar(Head(t))>> \o Lower(Tail(t))

\* code point of a character
CharCode(c) ==
    CASE c = "A" -> 65
      [] c = "B" -> 66
      [] c = "W" -> 87
      [] c = "a" -> 97
      [] c = "b" -> 98
      [] c = "w" -> 119
      [] OTHER -> 0

\* the order of Python strings: lexicographic by code point
RECURSIVE StrLess(_, _)
StrLess(a, b) ==
    IF a = <<>> THEN b # <<>>
    ELSE IF b = <<>> THEN FALSE
    ELSE IF Head(a) = Head(b) THEN StrLess(Tail(a), Tail(b))
    ELSE CharCode(Head(a)) < CharCode(Head(b))

\* dict[key] = value
Put(d, key, value) == [k \in DOMAIN d \cup {key} |-> IF k = key THEN value ELSE d[k]]

RECURSIVE TagStatsLoop(_, _, _)
TagStatsLoop(files, i, tag_stats) ==
    IF i > Len(files) THEN tag_stats
    ELSE LET data == files[i].content
         IN IF data = Unreadable
            THEN TagStatsLoop(files, i + 1, tag_stats)
            ELSE TagStatsLoop(files, i + 1,
                     Put(tag_stats, Get(data, "tag", files[i].stem), Get(data, "count", 0)))

load_tag_stats(dir) ==
    IF ~dir.exists THEN EmptyDict ELSE TagStatsLoop(dir.files, 1, EmptyDict)

RECURSIVE AuthorStatsLoop(_, _, _)
AuthorStatsLoop(files, i, author_stats) ==
    IF i > Len(files) THEN author_stats
    ELSE LET data == files[i].content
         IN IF data = Unreadable
            THEN AuthorStatsLoop(files, i + 1, author_stats)
            ELSE AuthorStatsLoop(files, i + 1,
                     Put(author_stats, Get(data, "author", Unknown),
                         [slug |-> Get(data, "slug", files[i].stem),
                          count |-> Get(data, "count", 0)]))

load_author_stats(dir) ==
    IF ~dir.exists THEN EmptyDict ELSE AuthorStatsLoop(dir.files, 1, EmptyDict)

\* sorted(tag_stats.items(), key=lambda x: x[0]), the keys only
RECURSIVE sorted_tags(_)
sorted_tags(keys) ==
    IF keys = {} THEN <<>>
    ELSE LET least == CHOOSE k \in keys : \A o \in keys \ {k} : StrLess(k, o)
         IN <<least>> \o sorted_tags(keys \ {least})

\* sum(tag_stats.values())
RECURSIVE SumValues(_, _)
SumValues(d, keys) ==
    IF keys = {} THEN 0
    ELSE LET k == CHOOSE x \in keys : TRUE IN d[k] + SumValues(d, keys \ {k})

\* the label is f"{tag_name.capitalize()}: {count}", kept as its two parts
tag_options(tag_stats) ==
    LET order == sorted_tags(DOMAIN tag_stats)
    IN [i \in 1..Len(order) |->
           [label |-> [tag_name |-> Capitalize(order[i]), count |-> tag_stats[order[i]]],
            value |-> order[i]]]

about_field(tag_stats, author_stats) ==
    [keyname |-> "about",
     total_quotes |-> SumValues(tag_stats, DOMAIN tag_stats),
     total_tags |-> Cardinality(DOMAIN tag_stats),
     total_authors |-> Cardinality(DOMAIN author_stats)]

tags_field(tag_stats) ==
    [keyname |-> "tags",
     total_tags |-> Cardinality(DOMAIN tag_stats),
     options |-> tag_options(tag_stats)]

\* a generator that emits the tags field whatever tag_stats holds
custom_fieldsAlwaysTags(tag_stats, author_stats) ==
    <<about_field(tag_stats, author_stats), tags_field(tag_stats)>>

custom_fields(tag_stats, author_stats) ==
    <<about_field(tag_stats, author_stats)>>
        \o (IF DOMAIN tag_stats # {} THEN <<tags_field(tag_stats)>> ELSE <<>>)

(***************************** options harness ****************************)
TagStems == {<<"w">>, <<"a", "b">>, <<"B">>}

TagContents ==
    {Unreadable}
        \cup {[count |-> c] : c \in 0..MaxCount}
        \cup {[tag |-> <<"w">>, count |-> c] : c \in 0..MaxCount}
        \cup {[tag |-> <<"w">>], EmptyDict}

AuthorStems == {"x", "y"}

AuthorContents == {Unreadable, [author |-> "X", count |-> 1], [slug |-> "z"]}

\* the listings of at most n files with different stems
Listings(stems, contents, n) ==
    {l \in UNION {[1..k -> [stem : stems, content : contents]] : k \in 0..n} :
        \A i, j \in 1..Len(l) : l[i].stem = l[j].stem => i = j}

Dirs(stems, contents, n) ==
    {MissingDir} \cup {[exists |-> TRUE, files |-> l] : l \in Listings(stems, contents, n)}

InitOptions ==
    /\ pc = "options"
    /\ tags_dir \in Dirs(TagStems, TagContents, MaxFiles)
    /\ authors_dir \in Dirs(AuthorStems, AuthorContents, MaxAuthorFiles)
    /\ options = NotWritten
    /\ SlugIdle /\ FetchIdle
    /\ all_quotes = <<>> /\ OrgIdle /\ MergeIdle /\ FileIdle /\ PassIdle

\* create_options_yml()
CreateOptions ==
    /\ pc = "options"
    /\ options' = custom_fields(load_tag_stats(tags_dir), load_author_stats(authors_dir))
    /\ pc' = "generated"
    /\ UNCHANGED <<tags_dir, authors_dir, slugVars, last_call, mergeVars, all_quotes, orgVars, file,
                   passVars, histVars>>

NextOptions == CreateOptions

SpecOptions == InitOptions /\ [][NextOptions]_vars

(***************************** slugify *************************************)
\* \w: a letter, a digit or the underscore
IsWordChar(c) == c \in {"a", "b", "w", "A", "B", "W", "_"}

\* the class [-\s]
IsHyphenOrSpace(c) == c = "-" \/ IsSpace(c)

\* re.sub(r'[^\w\s-]', '', text): delete what is neither word character,
\* whitespace nor hyphen
DeleteOthers(t) == SelectSeq(t, LAMBDA c : IsWordChar(c) \/ IsHyphenOrSpace(c))

\* a substitution that puts a hyphen where it deletes
RECURSIVE CollapseRunsKeepAll(_)
CollapseRunsKeepAll(t) ==
    IF t = <<>> THEN <<>>
    ELSE (IF IsHyphenOrSpace(Head(t)) THEN <<"-">> ELSE <<Head(t)>>)
             \o CollapseRunsKeepAll(Tail(t))

\* re.sub(r'[-\s]+', '-', text): every maximal run of hyphens and
\* whitespace becomes one hyphen
RECURSIVE CollapseRuns(_)
CollapseRuns(t) ==
    IF t = <<>> THEN <<>>
    ELSE IF IsHyphenOrSpace(Head(t))
         THEN IF Len(t) > 1 /\ IsHyphenOrSpace(t[2])
              THEN CollapseRuns(Tail(t))
              ELSE <<"-">> \o CollapseRuns(Tail(t))
         ELSE <<Head(t)>> \o CollapseRuns(Tail(t))

\* str.strip('-')
StripHyphens(t) ==
    LET keep == {i \in 1..Len(t) : t[i] # "-"}
    IN  IF keep = {} THEN <<>>
        ELSE LET lo == CHOOSE i \in keep : \A j \in keep : i <= j
                 hi == CHOOSE i \in keep : \A j \in keep : j <= i
             IN  SubSeq(t, lo, hi)

slugify(t) == StripHyphens(CollapseRuns(DeleteOthers(Lower(t))))

(***************************** slugify harness *****************************)
NameChars == {"a", "B", " ", "-", "!", "_"}

Names == UNION {[1..n -> NameChars] : n \in 0..MaxNameLen}

InitSlug ==
    /\ pc = "slugify"
    /\ name \in Names
    /\ slug = <<>>
    /\ all_quotes = <<>> /\ OrgIdle /\ MergeIdle /\ FileIdle /\ PassIdle /\ OptIdle /\ FetchIdle

Slugify ==
    /\ pc = "slugify"
    /\ slug' = slugify(name)
    /\ pc' = "slugged"
    /\ UNCHANGED <<name, optVars, last_call, mergeVars, all_quotes, orgVars, file, passVars, histVars>>

NextSlug == Slugify

SpecSlug == InitSlug /\ [][NextSlug]_vars

(***************************** claims: merge_quotes ************************)
NormsOf(list) == {NormText(list[i]) : i \in 1..Len(list)}

\* incoming records with a non-empty normalized text that existing lacks
FreshIn(ex, inc) ==
    {i \in 1..Len(inc) : NormText(inc[i]) # <<>> /\ NormText(inc[i]) \notin NormsOf(ex)}

\* C2 as stated: the merged list has at most len(existing) + len(incoming)
\* records, and exactly len(existing) plus the number of incoming records
\* whose normalized text is non-empty and absent from existing.
C2_LengthAsStated ==
    pc = "merged" =>
        /\ Len(m1) <= Len(existing) + Len(incoming)
        /\ Len(m1) = Len(existing) + Cardinality(FreshIn(existing, incoming))

\* C2 amended: the merged list has at most len(existing) + len(incoming)
\* records, and exactly len(existing) plus the number of incoming records
\* whose normalized text is non-empty, absent from existing, and different
\* from the normalized text of every earlier incoming record.
C2_Length ==
    pc = "merged" =>
        /\ Len(m1) <= Len(existing) + Len(incoming)
        /\ Len(m1) = Len(existing)
              + Cardinality({i \in FreshIn(existing, incoming) :
                    \A j \in 1..(i - 1) : NormText(incoming[j]) # NormText(incoming[i])})

\* a merge that returned, whose incoming list repeats a fresh normalized text
C2_Witness ==
    /\ pc = "merged"
    /\ Len(existing) > 0
    /\ \E i, j \in FreshIn(existing, incoming) :
          i < j /\ NormText(incoming[i]) = NormText(incoming[j])

\* C3: merging the same incoming list into the result of the first merge
\* adds zero records and returns the first result unchanged.
C3_Idempotent == pc = "merged_again" => a2 = 0 /\ m2 = m1

\* a second merge after a first one that appended records
C3_Witness == pc = "merged_again" /\ a1 > 0 /\ Len(existing) > 0

\* the incoming indices the claim calls accepted: non-empty after trimming,
\* normalized text not among existing nor among earlier accepted records
AcceptedIdx(ex, inc) ==
    CHOOSE S \in SUBSET (1..Len(inc)) :
        \A i \in 1..Len(inc) :
            i \in S <=> /\ Strip(inc[i].text) # <<>>
                        /\ NormText(inc[i]) \notin NormsOf(ex)
                        /\ \A j \in S : j < i => NormText(inc[j]) # NormText(inc[i])

\* C5: the merged list is existing, in its order, followed by the accepted
\* incoming records in their input order.
C5_OrderPreserving ==
    pc = "merged" =>
        LET acc == AcceptedIdx(existing, incoming)
            rank(i) == Cardinality({j \in acc : j <= i})
        IN  /\ Len(m1) = Len(existing) + Cardinality(acc)
            /\ \A k \in 1..Len(existing) : m1[k] = existing[k]
            /\ \A i \in acc : m1[Len(existing) + rank(i)] = incoming[i]
            /\ a1 = Cardinality(acc)

\* a merge onto a non-empty list that accepted two records and rejected none
\* of them out of order
C5_Witness == pc = "merged" /\ Len(existing) > 0 /\ a1 = 2 /\ m1[Len(m1)] = incoming[2]

(***************************** claims: partitioning ************************)
TagsOf(q) == Get(q, "tags", <<>>)
TagSet(q) == {TagsOf(q)[j] : j \in 1..Len(TagsOf(q))}
InBucket(db, key, q) == key \in DOMAIN db /\ \E k \in 1..Len(db[key]) : db[key][k] = q

\* C7 as stated: every record is in the partition of each of its tags.
C7_InEveryPartitionAsStated ==
    pc = "by_tags" =>
        \A i \in 1..Len(all_quotes) : \A tag \in TagSet(all_quotes[i]) :
            InBucket(tags_db, tag, all_quotes[i])

\* C7 amended: the partition of each tag a record carries exists and holds
\* the first record of the collection that carries that tag and has the
\* record's normalized text; so a record is in each of its partitions, with
\* identical field content, unless an earlier record with the same
\* normalized text carries that tag.
C7_InEveryPartition ==
    pc = "by_tags" =>
        \A i \in 1..Len(all_quotes) : \A tag \in TagSet(all_quotes[i]) :
            LET same == {j \in 1..i : /\ tag \in TagSet(all_quotes[j])
                                      /\ NormText(all_quotes[j]) = NormText(all_quotes[i])}
                first == CHOOSE j \in same : \A l \in same : j <= l
            IN  /\ InBucket(tags_db, tag, all_quotes[first])
                /\ Cardinality({k \in 1..Len(tags_db[tag]) :
                       NormText(tags_db[tag][k]) = NormText(all_quotes[i])}) = 1

\* a record with two tags that is in one of its partitions and kept out of
\* the other by an earlier record
C7_Witness ==
    /\ pc = "by_tags"
    /\ \E i \in 1..Len(all_quotes) : \E t1, t2 \in TagSet(all_quotes[i]) :
          /\ t1 # t2
          /\ InBucket(tags_db, t1, all_quotes[i])
          /\ ~InBucket(tags_db, t2, all_quotes[i])

NoTwoAlike(bucket) ==
    \A k, l \in 1..Len(bucket) : k # l => NormText(bucket[k]) # NormText(bucket[l])

\* C8: no bucket of organize_by_tags or organize_by_authors holds two
\* records with the same normalized text.
C8_BucketLocalDedup ==
    /\ pc \in {"by_tags", "by_authors"} => \A tag \in DOMAIN tags_db : NoTwoAlike(tags_db[tag])
    /\ pc = "by_authors" => \A author \in DOMAIN authors_db : NoTwoAlike(authors_db[author])

\* both partitionings done on a collection where two records with the same
\* normalized text share a tag, two share an author, and a record lists a
\* tag twice
C8_Witness ==
    /\ pc = "by_authors"
    /\ \E i, j \in 1..Len(all_quotes) :
          /\ i < j /\ NormText(all_quotes[i]) = NormText(all_quotes[j])
          /\ all_quotes[i].author = all_quotes[j].author
    /\ \E i, j \in 1..Len(all_quotes) :
          /\ i < j /\ NormText(all_quotes[i]) = NormText(all_quotes[j])
          /\ TagSet(all_quotes[i]) \cap TagSet(all_quotes[j]) # {}
    /\ \E i \in 1..Len(all_quotes) :
          Len(TagsOf(all_quotes[i])) > Cardinality(TagSet(all_quotes[i]))

(***************************** claims: load ********************************)
\* the file holds a JSON object all of whose values are lists of records
IsNestedMapping(f) ==
    /\ f.shape = "dict" /\ Len(f.items) > 0
    /\ \A p \in 1..Len(f.items) : f.items[p].value # NotAList

\* every record of every list is in the loaded list, tagged with its key
\* when it has no tags of its own, and nothing else is
FlatOf(f, loaded) ==
    LET items == f.items
        RECURSIVE before(_)
        before(p) == IF p = 1 THEN 0 ELSE before(p - 1) + Len(items[p - 1].value)
    IN  /\ Len(loaded) = before(Len(items) + 1)
        /\ \A p \in 1..Len(items) : \A k \in 1..Len(items[p].value) :
              LET src == items[p].value[k]
                  got == loaded[before(p) + k]
              IN  /\ \A fld \in DOMAIN src : fld \in DOMAIN got /\ got[fld] = src[fld]
                  /\ DOMAIN got = DOMAIN src \cup {"tags"}
                  /\ "tags" \notin DOMAIN src => got.tags = <<items[p].key>>

\* C9 as stated: a mapping of tag name to list loads as the flat list of
\* all its records, untagged records tagged with their key, whatever the
\* tag names are.
C9_LegacyLoadAsStated ==
    pc = "loaded" /\ IsNestedMapping(file) => FlatOf(file, all_quotes)

\* C9 amended: the same, for a mapping none of whose keys is "quotes".
C9_LegacyLoad ==
    pc = "loaded" /\ IsNestedMapping(file) /\ "quotes" \notin Keys(file.items)
        => FlatOf(file, all_quotes)

\* a loaded two-key mapping holding an untagged record and a tagged one
C9_Witness ==
    /\ pc = "loaded" /\ IsNestedMapping(file) /\ "quotes" \notin Keys(file.items)
    /\ Len(file.items) = 2 /\ Len(all_quotes) = 2
    /\ "tags" \notin DOMAIN file.items[1].value[1]
    /\ "tags" \in DOMAIN file.items[2].value[1]
    /\ all_quotes[1].tags = <<file.items[1].key>>

(***************************** claims: the driver **************************)
\* generate_quotes_database has written OUTPUT_FILE at least once
Written == run > 1 \/ writes > 0

\* C1: every collection generate_quotes_database writes to quotes.json is
\* free of records with the same normalized text, whatever the file held
\* before and whatever was fetched.
C1_PersistedUnique ==
    Written => /\ file.shape = "dict"
               /\ "quotes" \in Keys(file.items)
               /\ NoTwoAlike(ValueOf(file.items, "quotes"))

\* the records of seq that are the first with their non-empty normalized text
FirstOccurrences(seq) ==
    LET keep == {i \in 1..Len(seq) :
                    /\ NormText(seq[i]) # <<>>
                    /\ \A j \in 1..(i - 1) : NormText(seq[j]) # NormText(seq[i])}
        rank(i) == Cardinality({j \in keep : j <= i})
    IN  [k \in 1..Cardinality(keep) |-> seq[CHOOSE i \in keep : rank(i) = k]]

\* C4: starting from an empty collection, the persisted collection holds
\* exactly the first fetched record of each distinct non-empty normalized
\* text among all records fetched and merged so far, in fetch order.
C4_EndToEnd ==
    /\ Written /\ base = <<>> /\ pc # "save" => file = Envelope(FirstOccurrences(fetched))
    /\ base = <<>> /\ pc = "save" => all_quotes = FirstOccurrences(fetched)

\* a finished pass from an empty collection in which the network returned a
\* record and then a case/whitespace variant of it
C4_Witness ==
    /\ pc = "done" /\ base = <<>> /\ nfetched >= 2
    /\ Len(fetched) > Len(all_quotes)
    /\ \E i, j \in 1..Len(fetched) :
          /\ i < j /\ fetched[i].text # fetched[j].text
          /\ NormText(fetched[i]) = NormText(fetched[j])
    /\ file = Envelope(all_quotes)

\* C6 as stated: the file is written after each tag and once more at the
\* end of the pass, after partitioning.
C6_WritesAsStated ==
    pc = "done" => writes = Len(processed_order) + 1

\* C6 amended: the file is written with the full in-memory collection
\* after each tag's merge, once per tag and not again after partitioning;
\* at any point where the process may be terminated the file holds the
\* in-memory collection as of the last tag whose processing completed.
C6_Checkpoints ==
    /\ Written => file = Envelope(saved)
    /\ writes > 0 /\ pc \in {"fetch", "merge"} => saved = all_quotes
    /\ pc \in {"organize", "done"} =>
          /\ file = Envelope(all_quotes)
          /\ writes = Len(processed_order)

\* between the merge of a later tag and its checkpoint: memory has moved
\* on, the file still holds the collection of the last completed tag
C6_Witness ==
    /\ pc = "save" /\ writes > 0
    /\ all_quotes # saved
    /\ file = Envelope(saved)

\* C10: no outcome of a network call halts the run; a pass that halts does
\* so because of what the collection file held.
C10_NetworkNeverHalts ==
    pc = "crashed" =>
        \/ base = NotAList
        \/ \E i \in 1..Len(base) : TextRaises(base[i])

(***************************** claims: malformed file **********************)
\* the file is absent, or holds none of the three shapes with lists of records
Malformed(f) ==
    \/ f.shape \in {"absent", "invalid", "scalar"}
    \/ f.shape = "dict" /\ \E p \in 1..Len(f.items) : f.items[p].value = NotAList

\* C11: a missing or malformed collection file is never fatal: the first
\* pass loads an empty collection from it and goes on to fetch; it does not
\* halt before the network has returned anything.
C11_MalformedNeverFatal ==
    run = 1 /\ writes = 0 /\ pc # "load" /\ Malformed(file) =>
        /\ base = <<>>
        /\ pc = "crashed" => nfetched > 0

(***************************** claims: options generator *******************)
\* the partition directory is missing, or none of its files can be read
NoTagReadable(dir) ==
    ~dir.exists \/ \A i \in 1..Len(dir.files) : dir.files[i].content = Unreadable

IsAlnum(c) == c \in {"a", "b", "w", "A", "B", "W"}

\* the slug as the sentence describes it: lowercased, every character that
\* is not alphanumeric turned into a hyphen, runs of hyphens made one, and
\* the hyphens at both ends dropped
StatedSlug(t) ==
    LET low == Lower(t)
        dashed == [i \in 1..Len(low) |-> IF IsAlnum(low[i]) THEN low[i] ELSE "-"]
    IN  StripHyphens(CollapseRuns(dashed))

\* position in t of its k-th word character
WordPos(t, k) ==
    CHOOSE i \in 1..Len(t) :
        IsWordChar(t[i]) /\ Cardinality({j \in 1..i : IsWordChar(t[j])}) = k

\* C13 as stated: the slug is the lowercased name with every maximal run of
\* non-alphanumeric characters collapsed to one hyphen and the end hyphens
\* stripped; it holds only lowercase alphanumerics and single interior
\* hyphens.
C13_SlugAsStated ==
    pc = "slugged" =>
        /\ slug = StatedSlug(name)
        /\ \A i \in 1..Len(slug) :
               \/ IsAlnum(slug[i]) /\ LowerChar(slug[i]) = slug[i]
               \/ slug[i] = "-" /\ 1 < i /\ i < Len(slug) /\ slug[i + 1] # "-"

\* C13: the slug holds only lowercase word characters (letters, digits,
\* underscores) and single interior hyphens; its word characters are those
\* of the name, lowercased and in order; two consecutive ones are joined by
\* a hyphen exactly when a space or a hyphen stood somewhere between them in
\* the name.  Other punctuation is deleted and leaves no hyphen.
C13_Slug ==
    pc = "slugged" =>
        /\ \A i \in 1..Len(slug) :
               \/ IsWordChar(slug[i]) /\ LowerChar(slug[i]) = slug[i]
               \/ slug[i] = "-" /\ 1 < i /\ i < Len(slug) /\ slug[i + 1] # "-"
        /\ SelectSeq(slug, IsWordChar) = Lower(SelectSeq(name, IsWordChar))
        /\ \A k \in 1..(Len(SelectSeq(name, IsWordChar)) - 1) :
               slug[WordPos(slug, k) + 1] = "-"
                   <=> \E q \in (WordPos(name, k) + 1)..(WordPos(name, k + 1) - 1) :
                           IsHyphenOrSpace(name[q])

C13_Witness ==
    /\ pc = "slugged"
    /\ \E i \in 1..Len(name) : name[i] = "!"
    /\ \E i \in 1..Len(name) : name[i] = "B"
    /\ \E i \in 1..Len(slug) : slug[i] = "-"

(***************************** claims: pauses ******************************)
\* C14: in every fetcher each network call is followed by a pause before the
\* next network call is issued, whatever the call's outcome: whenever a
\* further call of the tag is about to be issued, the last call was
\* followed by its time.sleep.
C14_PauseAfterEveryCall == pc = "fetch" => last_call.paused

(***************************** claims: merge frame **************************)
\* incoming[j] repeats the normalized text of existing[k]
Repeats(k, j) == Lower(Strip(incoming[j].text)) = NormText(existing[k])

\* C15: merge_quotes leaves its inputs and every existing record unchanged:
\* across the call the lists existing and incoming are the same, and on
\* return each existing record stands at its place in the merged list with
\* the fields it had; a record of incoming with the same normalized text
\* adds none of its tags to it.
C15_MergeFrame ==
    [][pc = "call" =>
          /\ existing' = existing
          /\ incoming' = incoming
          /\ pc' = "merged" =>
                /\ Len(m1') >= Len(existing)
                /\ \A k \in 1..Len(existing) :
                       /\ DOMAIN m1'[k] = DOMAIN existing[k]
                       /\ \A f \in DOMAIN existing[k] : m1'[k][f] = existing[k][f]
                       /\ \A j \in 1..Len(incoming) :
                              Repeats(k, j) => TagsOf(m1'[k]) = TagsOf(existing[k])]_vars

\* a merge that rejected a record repeating an existing text under a tag
\* the existing record does not carry
C15_Witness ==
    /\ pc = "merged"
    /\ \E k \in 1..Len(existing), j \in 1..Len(incoming) :
           /\ Repeats(k, j)
           /\ ~(TagSet(incoming[j]) \subseteq TagSet(existing[k]))
    /\ a1 < Len(incoming)

====
